---- MODULE Spec2Model ----
(***************************************************************************)
(* Model of rmLB (src/main.go): a round-robin reverse-proxying load        *)
(* balancer.  The state is the LoadBalancer (backends, current), each      *)
(* Backend's Alive flag and RWMutex, the main goroutine, the periodic      *)
(* health-check goroutine and one goroutine per inbound request.  Every    *)
(* action is one shared-memory operation of the code followed by the       *)
(* local computation up to the next one.                                   *)
(***************************************************************************)
EXTENDS Integers, Sequences, FiniteSets, TLC

\* ------------------------------------------------------------------ bounds
\* Number of inbound requests (one goroutine each) in the program model.
MaxRequests == 2
\* Largest pool size drawn for the selector specification.
MaxN == 3
\* Number of consecutive NextBackend calls recorded by the selector spec.
MaxCalls == 4

\* --------------------------------------------------------- program constants
\* serverList of main: the static pool, named by the port of each URL.
serverList == <<8081, 8082, 8083>>
NumServers == Len(serverList)
\* The cursor is a uint64, kept as four 16-bit limbs, most significant first.
Limb == 65536

Requests == 1..MaxRequests
Threads  == {"main", "periodic"}
Nil      == 0

VARIABLES
  mainpc,     \* position of main: configure, healthcheck, spawn, listen, serving, fatal
  backends,   \* lb.backends: sequence of [URL, Alive]
  mux,        \* Backend.mux of each backend: [w: write-locked, r: number of readers]
  current,    \* lb.current (uint64 as limbs)
  hc,         \* per goroutine that can run HealthCheck: [pc, i, status]
  reach,      \* environment: outcome of the latest TCP dial to each backend
  req,        \* per request goroutine: locals of ServeHTTP / NextBackend
  hcLog,      \* history: probe/set events of the HealthCheck invocation in progress, per goroutine
  written,    \* history: backends whose flag a probe result has been written to
  everDead,   \* history: some Alive flag has been false
  hist,       \* history of the selector specification: results of consecutive calls
  track       \* whether this specification records req[r].deadSince

vars == <<mainpc, backends, mux, current, hc, reach, req, hcLog, written, everDead,
          hist, track>>

\* -------------------------------------------------------------- uint64 cursor
U64(l1, l2, l3, l4) == <<l1, l2, l3, l4>>
U64Zero == U64(0, 0, 0, 0)
U64Max  == U64(Limb - 1, Limb - 1, Limb - 1, Limb - 1)

\* (mutant) the counter saturates at its largest value instead of wrapping
AddUint64Saturating(c) ==
  IF c[4] < Limb - 1 THEN [c EXCEPT ![4] = @ + 1]
  ELSE IF c[3] < Limb - 1 THEN [c EXCEPT ![4] = 0, ![3] = @ + 1]
  ELSE IF c[2] < Limb - 1 THEN [c EXCEPT ![4] = 0, ![3] = 0, ![2] = @ + 1]
  ELSE IF c[1] < Limb - 1 THEN [c EXCEPT ![4] = 0, ![3] = 0, ![2] = 0, ![1] = @ + 1]
  ELSE c

\* atomic.AddUint64(&x, 1): x + 1 modulo 2^64
AddUint64(c) ==
  IF c[4] < Limb - 1 THEN [c EXCEPT ![4] = @ + 1]
  ELSE IF c[3] < Limb - 1 THEN [c EXCEPT ![4] = 0, ![3] = @ + 1]
  ELSE IF c[2] < Limb - 1 THEN [c EXCEPT ![4] = 0, ![3] = 0, ![2] = @ + 1]
  ELSE IF c[1] < Limb - 1 THEN [c EXCEPT ![4] = 0, ![3] = 0, ![2] = 0, ![1] = @ + 1]
  ELSE U64Zero

\* (mutant) the cursor truncated to its low 16 bits before the modulo
U64ModLow(c, n) == c[4] % n

\* c % uint64(n), by Horner's rule over the limbs
U64Mod(c, n) ==
  ((((((c[1] % n) * Limb + c[2]) % n) * Limb + c[3]) % n) * Limb + c[4]) % n

\* (mutant) the scan stops at the end of the pool instead of wrapping around
ScanIdxNoWrap(next, i, n) == IF next + i < n THEN next + i + 1 ELSE n

\* (mutant) the scan walks the pool backwards from the start index
ScanIdxBackward(next, i, n) == ((next + n - i) % n) + 1

\* NextBackend, line 51: idx := (int(next) + i) % len(lb.backends), as a position
\* of the pool counted from 1
ScanIdx(next, i, n) == ((next + i) % n) + 1

\* ------------------------------------------------------------------ helpers
N == Len(backends)
Pool == 1..N

\* Backend{URL: url, Alive: true, ...} and its zero-valued RWMutex
NewBackend(u) == [URL |-> u, Alive |-> TRUE]
FreeMux == [w |-> FALSE, r |-> 0]

\* locals of a goroutine that can run HealthCheck
HCOff == [pc |-> "off", i |-> 0, status |-> FALSE]
\* entry of HealthCheck: the range loop over lb.backends starts at the first backend
HCEnter(t) ==
  IF N = 0 THEN [pc |-> "return", i |-> 0, status |-> FALSE]
  ELSE [pc |-> "probe", i |-> 1, status |-> FALSE]

\* locals of a request goroutine before ServeHTTP is entered
\* (tick, seen, fwd, calls and deadSince are history: the value AddUint64 returned,
\* the flags read by the call in progress, the backends the request was forwarded
\* to, the number of NextBackend calls, and the backends whose flag has been false
\* without a successful probe ever since the call began, the backends whose flag
\* has been true at every instant since the call began, and whether all flags were
\* false together at some instant of the call)
NewReq == [pc |-> "new", next |-> 0, i |-> 0, alive |-> FALSE, backend |-> Nil,
           tick |-> U64Zero, resp |-> "none", fwd |-> <<>>, calls |-> 0,
           seen |-> <<>>, deadSince |-> {}, alwaysAlive |-> {}, allDeadAt |-> FALSE]

\* a HealthCheck holds a successful probe of b whose result is not yet stored
PendingAlive(b) ==
  \E t \in Threads : hc[t].pc \in {"lock", "write"} /\ hc[t].i = b /\ hc[t].status

Running == mainpc # "fatal"

\* --------------------------------------------------------------------- main
\* main, lines 126-145: one iteration of the loop over serverList
MainConfigure ==
  /\ mainpc = "configure"
  /\ N < NumServers
  /\ backends' = Append(backends, NewBackend(serverList[N + 1]))
  /\ mux' = Append(mux, FreeMux)
  /\ UNCHANGED <<mainpc, current, hc, reach, req, hcLog, written, everDead, hist, track>>

\* (mutant) main goes on to start the periodic loop without the initial HealthCheck
MainSkipHealthCheck ==
  /\ mainpc = "configure"
  /\ N = NumServers
  /\ mainpc' = "spawn"
  /\ UNCHANGED <<backends, mux, current, hc, reach, req, hcLog, written, everDead, hist, track>>

\* (mutant) the initial check is started with "go lb.HealthCheck()" and main goes on
MainHealthCheckAsync ==
  /\ mainpc = "configure"
  /\ N = NumServers
  /\ mainpc' = "spawn"
  /\ hc' = [hc EXCEPT !["main"] = HCEnter("main")]
  /\ hcLog' = [hcLog EXCEPT !["main"] = <<>>]
  /\ UNCHANGED <<backends, mux, current, reach, req, written, everDead, hist, track>>

\* main, line 148: the initial lb.HealthCheck() is called on the main goroutine
MainHealthCheck ==
  /\ mainpc = "configure"
  /\ N = NumServers
  /\ mainpc' = "healthcheck"
  /\ hc' = [hc EXCEPT !["main"] = HCEnter("main")]
  /\ hcLog' = [hcLog EXCEPT !["main"] = <<>>]
  /\ UNCHANGED <<backends, mux, current, reach, req, written, everDead, hist, track>>

\* main, line 151: go lb.HealthCheckPeriodically(time.Minute)
MainSpawn ==
  /\ mainpc = "spawn"
  /\ mainpc' = "listen"
  /\ hc' = [hc EXCEPT !["periodic"] = [pc |-> "wait", i |-> 0, status |-> FALSE]]
  /\ UNCHANGED <<backends, mux, current, reach, req, hcLog, written, everDead, hist, track>>

\* main, lines 154-163: ListenAndServe binds the port, or fails and log.Fatal exits
MainListen ==
  /\ mainpc = "listen"
  /\ \E ok \in BOOLEAN : mainpc' = IF ok THEN "serving" ELSE "fatal"
  /\ UNCHANGED <<backends, mux, current, hc, reach, req, hcLog, written, everDead, hist, track>>

\* main, lines 161-163: ListenAndServe returns an error while the server is
\* serving (Accept fails for good) and log.Fatal exits the process, wherever the
\* request goroutines and the Health Monitor are
MainServeError ==
  /\ mainpc = "serving"
  /\ mainpc' = "fatal"
  /\ UNCHANGED <<backends, mux, current, hc, reach, req, hcLog, written, everDead, hist, track>>

\* -------------------------------------------------------------- HealthCheck
\* isBackendAlive(u): net.DialTimeout connects (true) or fails or times out (false);
\* both can happen to any backend at any probe
DialOutcomes == BOOLEAN

\* HealthCheckPeriodically, lines 89-93: a tick arrives and lb.HealthCheck() is called
HCTick ==
  /\ Running
  /\ hc["periodic"].pc = "wait"
  /\ hc' = [hc EXCEPT !["periodic"] = HCEnter("periodic")]
  /\ hcLog' = [hcLog EXCEPT !["periodic"] = <<>>]
  /\ UNCHANGED <<mainpc, backends, mux, current, reach, req, written, everDead, hist, track>>

\* HealthCheck, line 76: status := isBackendAlive(b.URL)
HCProbe(t) ==
  /\ Running
  /\ hc[t].pc = "probe"
  /\ \E status \in DialOutcomes :
       LET b == hc[t].i
       IN /\ reach' = [reach EXCEPT ![b] = status]
          /\ hc' = [hc EXCEPT ![t].status = status, ![t].pc = "lock"]
          /\ hcLog' = [hcLog EXCEPT ![t] = Append(@, <<"probe", b, status>>)]
          /\ req' = IF track /\ status
                       THEN [r \in DOMAIN req |-> [req[r] EXCEPT !.deadSince = @ \ {b}]]
                       ELSE req
  /\ UNCHANGED <<mainpc, backends, mux, current, written, everDead, hist, track>>

\* (mutant) Lock waits for another writer only, not for the readers inside
HCLockNoWait(t) ==
  /\ Running
  /\ hc[t].pc = "lock"
  /\ LET b == hc[t].i
     IN /\ ~mux[b].w
        /\ mux' = [mux EXCEPT ![b].w = TRUE]
  /\ hc' = [hc EXCEPT ![t].pc = "write"]
  /\ UNCHANGED <<mainpc, backends, current, reach, req, hcLog, written, everDead, hist, track>>

\* SetAlive, line 26: b.mux.Lock()
HCLock(t) ==
  /\ Running
  /\ hc[t].pc = "lock"
  /\ LET b == hc[t].i
     IN /\ ~mux[b].w
        /\ mux[b].r = 0
        /\ mux' = [mux EXCEPT ![b].w = TRUE]
  /\ hc' = [hc EXCEPT ![t].pc = "write"]
  /\ UNCHANGED <<mainpc, backends, current, reach, req, hcLog, written, everDead, hist, track>>

\* SetAlive, line 27: b.Alive = alive
HCWrite(t) ==
  /\ Running
  /\ hc[t].pc = "write"
  /\ LET b == hc[t].i
     IN /\ backends' = [backends EXCEPT ![b].Alive = hc[t].status]
        /\ written' = written \cup {b}
        /\ hcLog' = [hcLog EXCEPT ![t] = Append(@, <<"set", b, hc[t].status>>)]
        /\ req' = IF track
                     THEN [r \in DOMAIN req |->
                             IF req[r].pc \in {"loop", "read", "runlock"}
                               THEN [req[r] EXCEPT
                                       !.alwaysAlive = IF hc[t].status THEN @ ELSE @ \ {b},
                                       !.allDeadAt = @ \/ \A c \in Pool : ~backends'[c].Alive]
                               ELSE req[r]]
                     ELSE req
  /\ everDead' = (everDead \/ ~hc[t].status)
  /\ hc' = [hc EXCEPT ![t].pc = "unlock"]
  /\ UNCHANGED <<mainpc, mux, current, reach, hist, track>>

\* (mutant) the loop over the pool is left at the first backend found dead
HCUnlockBreak(t) ==
  /\ Running
  /\ hc[t].pc = "unlock"
  /\ mux' = [mux EXCEPT ![hc[t].i].w = FALSE]
  /\ hc' = IF hc[t].i < N /\ hc[t].status
             THEN [hc EXCEPT ![t].pc = "probe", ![t].i = @ + 1, ![t].status = FALSE]
             ELSE [hc EXCEPT ![t].pc = "return", ![t].status = FALSE]
  /\ UNCHANGED <<mainpc, backends, current, reach, req, hcLog, written, everDead, hist, track>>

\* (mutant) SetAlive returns without Unlock
HCUnlockKeep(t) ==
  /\ Running
  /\ hc[t].pc = "unlock"
  /\ hc' = IF hc[t].i < N
             THEN [hc EXCEPT ![t].pc = "probe", ![t].i = @ + 1, ![t].status = FALSE]
             ELSE [hc EXCEPT ![t].pc = "return", ![t].status = FALSE]
  /\ UNCHANGED <<mainpc, backends, mux, current, reach, req, hcLog, written, everDead, hist, track>>

\* SetAlive, line 28: b.mux.Unlock(); then lines 78-83 and the next loop iteration
HCUnlock(t) ==
  /\ Running
  /\ hc[t].pc = "unlock"
  /\ mux' = [mux EXCEPT ![hc[t].i].w = FALSE]
  /\ hc' = IF hc[t].i < N
             THEN [hc EXCEPT ![t].pc = "probe", ![t].i = @ + 1, ![t].status = FALSE]
             ELSE [hc EXCEPT ![t].pc = "return", ![t].status = FALSE]
  /\ UNCHANGED <<mainpc, backends, current, reach, req, hcLog, written, everDead, hist, track>>

\* (mutant) HealthCheckPeriodically returns after its first check instead of looping
HCReturnOnce(t) ==
  /\ Running
  /\ hc[t].pc = "return"
  /\ mainpc' = (IF t = "main" THEN "spawn" ELSE mainpc)
  /\ hc' = [hc EXCEPT ![t] = HCOff]
  /\ hcLog' = [hcLog EXCEPT ![t] = <<>>]
  /\ UNCHANGED <<backends, mux, current, reach, req, written, everDead, hist, track>>

\* HealthCheck returns: main goes on to line 151, the periodic loop waits for a tick
HCReturn(t) ==
  /\ Running
  /\ hc[t].pc = "return"
  /\ IF t = "main"
       THEN /\ mainpc' = "spawn"
            /\ hc' = [hc EXCEPT ![t] = HCOff]
       ELSE /\ mainpc' = mainpc
            /\ hc' = [hc EXCEPT ![t] = [pc |-> "wait", i |-> 0, status |-> FALSE]]
  /\ hcLog' = [hcLog EXCEPT ![t] = <<>>]
  /\ UNCHANGED <<backends, mux, current, reach, req, written, everDead, hist, track>>

\* ------------------------------------------------- NextBackend and ServeHTTP
\* (mutant) the increment is a plain load and store: a caller that loaded the cursor
\* before a concurrent caller's store gets the same value as that caller
ReqAddLost(r) ==
  /\ mainpc = "serving"
  /\ req[r].pc = "new"
  /\ \A q \in Requests : q < r => req[q].pc # "new"
  /\ LET racing == \E q \in Requests : req[q].pc \in {"loop", "read", "runlock"}
         tick == IF racing THEN current ELSE AddUint64(current)
     IN /\ current' = tick
        /\ req' = [req EXCEPT ![r] =
                     [@ EXCEPT !.pc = "loop", !.tick = tick, !.next = U64Mod(tick, N),
                               !.i = 0, !.calls = @ + 1, !.seen = <<>>,
                               !.deadSince = {}]]
  /\ UNCHANGED <<mainpc, backends, mux, hc, reach, hcLog, written, everDead, hist, track>>

\* (mutant) select-then-increment: the start index is taken from the cursor as it
\* was before the increment
ReqAddPost(r) ==
  /\ mainpc = "serving"
  /\ req[r].pc = "new"
  /\ \A q \in Requests : q < r => req[q].pc # "new"
  /\ LET tick == AddUint64(current)
     IN /\ current' = tick
        /\ req' = [req EXCEPT ![r] =
                     [@ EXCEPT !.pc = "loop", !.tick = tick, !.next = U64Mod(current, N),
                               !.i = 0, !.calls = @ + 1, !.seen = <<>>,
                               !.deadSince = {}]]
  /\ UNCHANGED <<mainpc, backends, mux, hc, reach, hcLog, written, everDead, hist, track>>

\* NextBackend, line 48: next := atomic.AddUint64(&lb.current, 1) % len(lb.backends).
\* Request goroutines are numbered in the order of their AddUint64.
ReqAdd(r) ==
  /\ mainpc = "serving"
  /\ req[r].pc = "new"
  /\ \A q \in Requests : q < r => req[q].pc # "new"
  /\ LET tick == AddUint64(current)
     IN /\ current' = tick
        /\ req' = [req EXCEPT ![r] =
                     [@ EXCEPT !.pc = "loop", !.tick = tick, !.next = U64Mod(tick, N),
                               !.i = 0, !.calls = @ + 1, !.seen = <<>>,
                               !.deadSince = IF track
                                 THEN {b \in Pool : ~backends[b].Alive /\ ~PendingAlive(b)}
                                 ELSE {},
                               !.alwaysAlive = IF track
                                 THEN {b \in Pool : backends[b].Alive}
                                 ELSE {},
                               !.allDeadAt = track /\ \A b \in Pool : ~backends[b].Alive]]
  /\ UNCHANGED <<mainpc, backends, mux, hc, reach, hcLog, written, everDead, hist, track>>

\* IsAlive, line 33: b.mux.RLock() on lb.backends[idx]
ReqRLock(r) ==
  /\ Running
  /\ req[r].pc = "loop"
  /\ LET idx == ScanIdx(req[r].next, req[r].i, N)
     IN /\ ~mux[idx].w
        /\ mux' = [mux EXCEPT ![idx].r = @ + 1]
  /\ req' = [req EXCEPT ![r].pc = "read"]
  /\ UNCHANGED <<mainpc, backends, current, hc, reach, hcLog, written, everDead, hist, track>>

\* (mutant) the flag read is that of the first backend of the pool, whatever idx is
ReqReadFirst(r) ==
  /\ Running
  /\ req[r].pc = "read"
  /\ LET idx == ScanIdx(req[r].next, req[r].i, N)
     IN req' = [req EXCEPT ![r].alive = backends[1].Alive, ![r].pc = "runlock",
                           ![r].seen = Append(@, <<idx, backends[1].Alive>>)]
  /\ UNCHANGED <<mainpc, backends, mux, current, hc, reach, hcLog, written, everDead, hist, track>>

\* IsAlive, line 34: alive = b.Alive
ReqRead(r) ==
  /\ Running
  /\ req[r].pc = "read"
  /\ LET idx == ScanIdx(req[r].next, req[r].i, N)
     IN req' = [req EXCEPT ![r].alive = backends[idx].Alive, ![r].pc = "runlock",
                           ![r].seen = Append(@, <<idx, backends[idx].Alive>>)]
  /\ UNCHANGED <<mainpc, backends, mux, current, hc, reach, hcLog, written, everDead, hist, track>>

\* (mutant) the loop runs for i < len(lb.backends) - 1: the last index is never read
ReqRUnlockShort(r) ==
  /\ Running
  /\ req[r].pc = "runlock"
  /\ LET idx == ScanIdx(req[r].next, req[r].i, N)
     IN /\ mux' = [mux EXCEPT ![idx].r = @ - 1]
        /\ req' = [req EXCEPT ![r] =
                     IF @.alive
                       THEN [@ EXCEPT !.pc = "ret", !.backend = idx, !.i = 0, !.alive = FALSE]
                     ELSE IF @.i + 1 < N - 1
                       THEN [@ EXCEPT !.pc = "loop", !.i = @ + 1]
                     ELSE [@ EXCEPT !.pc = "ret", !.backend = Nil, !.i = 0]]
  /\ UNCHANGED <<mainpc, backends, current, hc, reach, hcLog, written, everDead, hist, track>>

\* (mutant) after the last index the scan falls back to the backend at the start
\* index instead of returning nil
ReqRUnlockFallback(r) ==
  /\ Running
  /\ req[r].pc = "runlock"
  /\ LET idx == ScanIdx(req[r].next, req[r].i, N)
     IN /\ mux' = [mux EXCEPT ![idx].r = @ - 1]
        /\ req' = [req EXCEPT ![r] =
                     IF @.alive
                       THEN [@ EXCEPT !.pc = "ret", !.backend = idx, !.i = 0, !.alive = FALSE]
                     ELSE IF @.i + 1 < N
                       THEN [@ EXCEPT !.pc = "loop", !.i = @ + 1]
                     ELSE [@ EXCEPT !.pc = "ret", !.backend = ScanIdx(req[r].next, 0, N), !.i = 0]]
  /\ UNCHANGED <<mainpc, backends, current, hc, reach, hcLog, written, everDead, hist, track>>

\* (mutant) a scan that finds no backend alive resets the cursor before returning nil
ReqRUnlockRewind(r) ==
  /\ Running
  /\ req[r].pc = "runlock"
  /\ LET idx == ScanIdx(req[r].next, req[r].i, N)
     IN /\ mux' = [mux EXCEPT ![idx].r = @ - 1]
        /\ req' = [req EXCEPT ![r] =
                     IF @.alive
                       THEN [@ EXCEPT !.pc = "ret", !.backend = idx, !.i = 0, !.alive = FALSE]
                     ELSE IF @.i + 1 < N
                       THEN [@ EXCEPT !.pc = "loop", !.i = @ + 1]
                     ELSE [@ EXCEPT !.pc = "ret", !.backend = Nil, !.i = 0]]
        /\ current' = IF ~req[r].alive /\ req[r].i + 1 >= N THEN U64Zero ELSE current
  /\ UNCHANGED <<mainpc, backends, hc, reach, hcLog, written, everDead, hist, track>>

\* (mutant) the scan gives up at the first backend it reads dead
ReqRUnlockGiveUp(r) ==
  /\ Running
  /\ req[r].pc = "runlock"
  /\ LET idx == ScanIdx(req[r].next, req[r].i, N)
     IN /\ mux' = [mux EXCEPT ![idx].r = @ - 1]
        /\ req' = [req EXCEPT ![r] =
                     IF @.alive
                       THEN [@ EXCEPT !.pc = "ret", !.backend = idx, !.i = 0, !.alive = FALSE]
                       ELSE [@ EXCEPT !.pc = "ret", !.backend = Nil, !.i = 0]]
  /\ UNCHANGED <<mainpc, backends, current, hc, reach, hcLog, written, everDead, hist, track>>

\* IsAlive, line 35: b.mux.RUnlock(); then lines 52-56: return the backend when it
\* was read alive, go on with i+1, or return nil after the last index
ReqRUnlock(r) ==
  /\ Running
  /\ req[r].pc = "runlock"
  /\ LET idx == ScanIdx(req[r].next, req[r].i, N)
     IN /\ mux' = [mux EXCEPT ![idx].r = @ - 1]
        /\ req' = [req EXCEPT ![r] =
                     IF @.alive
                       THEN [@ EXCEPT !.pc = "ret", !.backend = idx, !.i = 0, !.alive = FALSE]
                     ELSE IF @.i + 1 < N
                       THEN [@ EXCEPT !.pc = "loop", !.i = @ + 1]
                     ELSE [@ EXCEPT !.pc = "ret", !.backend = Nil, !.i = 0]]
  /\ UNCHANGED <<mainpc, backends, current, hc, reach, hcLog, written, everDead, hist, track>>

\* (mutant) with no backend selected the request is still handed to the first proxy
ReqUnavailableFallback(r) ==
  /\ mainpc = "serving"
  /\ req[r].pc = "ret"
  /\ req[r].backend = Nil
  /\ req' = [req EXCEPT ![r].pc = "done", ![r].resp = "503", ![r].seen = <<>>,
                        ![r].fwd = Append(@, [to |-> 1, ok |-> FALSE]),
                        ![r].deadSince = {},
                             ![r].alwaysAlive = {}, ![r].allDeadAt = FALSE]
  /\ UNCHANGED <<mainpc, backends, mux, current, hc, reach, hcLog, written, everDead, hist, track>>

\* ServeHTTP, lines 101-104: backend == nil, http.Error 503
ReqUnavailable(r) ==
  /\ mainpc = "serving"
  /\ req[r].pc = "ret"
  /\ req[r].backend = Nil
  /\ req' = [req EXCEPT ![r].pc = "done", ![r].resp = "503", ![r].seen = <<>>,
                        ![r].deadSince = {},
                             ![r].alwaysAlive = {}, ![r].allDeadAt = FALSE]
  /\ UNCHANGED <<mainpc, backends, mux, current, hc, reach, hcLog, written, everDead, hist, track>>

\* (mutant) a failed forward sends the request back to NextBackend for another try
ReqForwardRetry(r) ==
  /\ mainpc = "serving"
  /\ req[r].pc = "ret"
  /\ req[r].backend # Nil
  /\ \E ok \in BOOLEAN :
       /\ req' = [req EXCEPT ![r].pc = IF ok \/ req[r].calls > 1 THEN "done" ELSE "new",
                             ![r].fwd = Append(@, [to |-> req[r].backend, ok |-> ok]),
                             ![r].resp = IF ok THEN "proxied" ELSE "503",
                             ![r].seen = <<>>, ![r].deadSince = {},
                             ![r].alwaysAlive = {}, ![r].allDeadAt = FALSE]
  /\ UNCHANGED <<mainpc, backends, mux, current, hc, reach, hcLog, written, everDead, hist, track>>

\* (mutant) the proxy's error handler marks the backend dead when forwarding fails
ReqForwardMarkDead(r) ==
  /\ mainpc = "serving"
  /\ req[r].pc = "ret"
  /\ req[r].backend # Nil
  /\ \E ok \in BOOLEAN :
       /\ req' = [req EXCEPT ![r].pc = "done",
                             ![r].fwd = Append(@, [to |-> req[r].backend, ok |-> ok]),
                             ![r].resp = IF ok THEN "proxied" ELSE "503",
                             ![r].seen = <<>>, ![r].deadSince = {},
                             ![r].alwaysAlive = {}, ![r].allDeadAt = FALSE]
       /\ backends' = IF ok THEN backends
                             ELSE [backends EXCEPT ![req[r].backend].Alive = FALSE]
  /\ UNCHANGED <<mainpc, mux, current, hc, reach, hcLog, written, everDead, hist, track>>

\* ServeHTTP, line 106: backend.ReverseProxy.ServeHTTP(w, r); the proxy relays the
\* backend's response, or on an error calls ErrorHandler (lines 133-136): 503
ReqForward(r) ==
  /\ mainpc = "serving"
  /\ req[r].pc = "ret"
  /\ req[r].backend # Nil
  /\ \E ok \in BOOLEAN :
       /\ req' = [req EXCEPT ![r].pc = "done",
                             ![r].fwd = Append(@, [to |-> req[r].backend, ok |-> ok]),
                             ![r].resp = IF ok THEN "proxied" ELSE "503",
                             ![r].seen = <<>>, ![r].deadSince = {},
                             ![r].alwaysAlive = {}, ![r].allDeadAt = FALSE]
  /\ UNCHANGED <<mainpc, backends, mux, current, hc, reach, hcLog, written, everDead, hist, track>>

\* ------------------------------------------------------------ specifications
Init ==
  /\ mainpc = "configure"
  /\ backends = <<>>
  /\ mux = <<>>
  /\ current = U64Zero
  /\ hc = [t \in Threads |-> HCOff]
  /\ reach = [b \in 1..NumServers |-> TRUE]
  /\ req = [r \in Requests |-> NewReq]
  /\ hcLog = [t \in Threads |-> <<>>]
  /\ written = {}
  /\ everDead = FALSE
  /\ hist = <<>>
  /\ track = FALSE

Next ==
  \/ MainConfigure
  \/ MainHealthCheck
  \/ MainSpawn
  \/ MainListen
  \/ MainServeError
  \/ HCTick
  \/ \E t \in Threads : HCProbe(t)
  \/ \E t \in Threads : HCLock(t)
  \/ \E t \in Threads : HCWrite(t)
  \/ \E t \in Threads : HCUnlock(t)
  \/ \E t \in Threads : HCReturn(t)
  \/ \E r \in Requests : ReqAdd(r)
  \/ \E r \in Requests : ReqRLock(r)
  \/ \E r \in Requests : ReqRead(r)
  \/ \E r \in Requests : ReqRUnlock(r)
  \/ \E r \in Requests : ReqUnavailable(r)
  \/ \E r \in Requests : ReqForward(r)

Spec == Init /\ [][Next]_vars

\* The program with req[r].deadSince recorded and one request served at a time
\* (the Health Monitor runs concurrently with it).
InitWatch ==
  /\ mainpc = "configure"
  /\ backends = <<>>
  /\ mux = <<>>
  /\ current = U64Zero
  /\ hc = [t \in Threads |-> HCOff]
  /\ reach = [b \in 1..NumServers |-> TRUE]
  /\ req = [r \in Requests |-> NewReq]
  /\ hcLog = [t \in Threads |-> <<>>]
  /\ written = {}
  /\ everDead = FALSE
  /\ hist = <<>>
  /\ track = TRUE

NextWatch ==
  \/ MainConfigure
  \/ MainHealthCheck
  \/ MainSpawn
  \/ MainListen
  \/ MainServeError
  \/ HCTick
  \/ \E t \in Threads : HCProbe(t)
  \/ \E t \in Threads : HCLock(t)
  \/ \E t \in Threads : HCWrite(t)
  \/ \E t \in Threads : HCUnlock(t)
  \/ \E t \in Threads : HCReturn(t)
  \/ \E r \in Requests : (\A q \in Requests \ {r} : req[q].pc \in {"new", "done"}) /\ ReqAdd(r)
  \/ \E r \in Requests : ReqRLock(r)
  \/ \E r \in Requests : ReqRead(r)
  \/ \E r \in Requests : ReqRUnlock(r)
  \/ \E r \in Requests : ReqUnavailable(r)
  \/ \E r \in Requests : ReqForward(r)

SpecWatch == InitWatch /\ [][NextWatch]_vars

\* The selector alone: one caller invokes NextBackend repeatedly on a pool of any
\* size up to MaxN, with any flags and a cursor near 0, a limb carry or the wrap.
Caller == CHOOSE r \in Requests : \A q \in Requests : r <= q

CursorStarts ==
  { U64Zero, U64(0, 0, 0, 1), U64(0, 0, 0, Limb - 2), U64(0, 0, 0, Limb - 1),
    U64(Limb - 1, Limb - 1, Limb - 1, Limb - 3),
    U64(Limb - 1, Limb - 1, Limb - 1, Limb - 2), U64Max }

InitSel ==
  /\ mainpc = "serving"
  /\ \E n \in 1..MaxN :
       /\ backends \in [1..n -> {[URL |-> 8080 + k, Alive |-> a] : k \in 1..n, a \in BOOLEAN}]
       /\ \A b \in 1..n : backends[b].URL = 8080 + b
       /\ mux = [b \in 1..n |-> FreeMux]
       /\ reach = [b \in 1..n |-> TRUE]
       /\ written = 1..n
  /\ current \in CursorStarts
  /\ hc = [t \in Threads |-> HCOff]
  /\ req = [r \in Requests |-> NewReq]
  /\ hcLog = [t \in Threads |-> <<>>]
  /\ everDead = (\E b \in DOMAIN backends : ~backends[b].Alive)
  /\ hist = <<>>
  /\ track = FALSE

\* the caller takes NextBackend's result and is ready for the next call
SelCollect ==
  /\ req[Caller].pc = "ret"
  /\ hist' = Append(hist, [tick |-> req[Caller].tick, backend |-> req[Caller].backend])
  /\ req' = [req EXCEPT ![Caller] = NewReq]
  /\ UNCHANGED <<mainpc, backends, mux, current, hc, reach, hcLog, written, everDead, track>>

NextSel ==
  \/ Len(hist) < MaxCalls /\ ReqAdd(Caller)
  \/ ReqRLock(Caller)
  \/ ReqRead(Caller)
  \/ ReqRUnlock(Caller)
  \/ SelCollect

SpecSel == InitSel /\ [][NextSel]_vars

\* The program under fair scheduling, with one request goroutine racing the
\* Health Monitor: every goroutine that can take a step eventually takes it, the
\* ticker keeps firing, and sync.RWMutex starves neither side (a blocked Lock holds
\* back new readers, and Unlock admits the readers that were waiting before any
\* later writer), hence strong fairness for Lock and RLock.  The request may
\* never arrive, the forward to a backend that accepts and never answers may never
\* return (line 106 has no deadline), and ListenAndServe may or may not fail while
\* serving: ReqAdd, ReqForward and MainServeError have no fairness.
NextLive ==
  \/ MainConfigure
  \/ MainHealthCheck
  \/ MainSpawn
  \/ MainListen
  \/ MainServeError
  \/ HCTick
  \/ \E t \in Threads : HCProbe(t)
  \/ \E t \in Threads : HCLock(t)
  \/ \E t \in Threads : HCWrite(t)
  \/ \E t \in Threads : HCUnlock(t)
  \/ \E t \in Threads : HCReturn(t)
  \/ ReqAdd(Caller)
  \/ ReqRLock(Caller)
  \/ ReqRead(Caller)
  \/ ReqRUnlock(Caller)
  \/ ReqUnavailable(Caller)
  \/ ReqForward(Caller)

Fairness ==
  /\ WF_vars(MainConfigure)
  /\ WF_vars(MainHealthCheck)
  /\ WF_vars(MainSpawn)
  /\ WF_vars(MainListen)
  /\ WF_vars(HCTick)
  /\ \A t \in Threads :
       /\ WF_vars(HCProbe(t))
       /\ SF_vars(HCLock(t))
       /\ WF_vars(HCWrite(t))
       /\ WF_vars(HCUnlock(t))
       /\ WF_vars(HCReturn(t))
  /\ SF_vars(ReqRLock(Caller))
  /\ WF_vars(ReqRead(Caller))
  /\ WF_vars(ReqRUnlock(Caller))
  /\ WF_vars(ReqUnavailable(Caller))

SpecLive == Init /\ [][NextLive]_vars /\ Fairness

\* =================================================================== claims
\* d is c + 1 modulo 2^64: the trailing limbs of c that are full become 0 and the
\* limb before them grows by one
CursorSucc(c, d) ==
  \E k \in 0..4 :
    /\ \A j \in (5 - k)..4 : c[j] = Limb - 1 /\ d[j] = 0
    /\ k < 4 => /\ c[4 - k] # Limb - 1
                /\ d[4 - k] = c[4 - k] + 1
                /\ \A j \in 1..(3 - k) : d[j] = c[j]

\* the step begins a NextBackend call of request r, or is a later step of one
CallBegins(r) == req[r].pc = "new" /\ req'[r].pc # "new"
CallStep(r) == req[r].pc \in {"loop", "read", "runlock"} /\ req'[r] # req[r]

AllAlive  == \A b \in Pool : backends[b].Alive
SomeAlive == \E b \in Pool : backends[b].Alive
AllDead   == \A b \in Pool : ~backends[b].Alive
AliveSet  == {b \in Pool : backends[b].Alive}
\* the positions whose flag the call in progress of request r has read, in order
SeenIdx(r) == [k \in 1..Len(req[r].seen) |-> req[r].seen[k][1]]

\* C1: on a pool with at least one alive backend whose flags do not change,
\* NextBackend returns a backend of the pool, never nil, whose flag is true.
C1_ReturnsAlive ==
  \A r \in Requests :
    (req[r].pc = "ret" /\ SomeAlive) =>
      /\ req[r].backend \in Pool
      /\ backends[req[r].backend].Alive

\* C1 witness: a call has returned an alive backend after skipping a dead one.
C1_Witness ==
  /\ req[Caller].pc = "ret"
  /\ SomeAlive /\ ~AllAlive
  /\ Len(req[Caller].seen) > 1
  /\ req[Caller].backend \in AliveSet

\* C2: on a pool whose flags are all false, NextBackend returns nil as an ordinary
\* result, after reading the flag of each of the N backends exactly once.
C2_AllDeadNil ==
  \A r \in Requests :
    (req[r].pc = "ret" /\ AllDead) =>
      /\ req[r].backend = Nil
      /\ Len(req[r].seen) = N
      /\ {SeenIdx(r)[k] : k \in 1..N} = Pool

\* C2 witness: a call on an all-dead pool of at least two backends has returned nil.
C2_Witness ==
  /\ N >= 2
  /\ AllDead
  /\ req[Caller].pc = "ret"
  /\ req[Caller].backend = Nil

\* the results k..k+N-1 of consecutive calls name every backend exactly once
EachOnce(k) == {hist[j].backend : j \in k..(k + N - 1)} = Pool
\* the counter wrapped from 2^64-1 to 0 at call j
Wrapped(j) == hist[j].tick = U64Zero

\* C3 as stated: with all backends alive, from any cursor value, successive calls
\* return successive pool positions and any N consecutive calls return each
\* backend exactly once.
C3_RoundRobinAnyCursor ==
  AllAlive =>
    /\ \A k \in 1..(Len(hist) - 1) : hist[k + 1].backend = (hist[k].backend % N) + 1
    /\ \A k \in 1..(Len(hist) - N + 1) : EachOnce(k)

\* C3 amended: the same, for calls between which the counter does not wrap.
C3_RoundRobinNoWrap ==
  AllAlive =>
    /\ \A k \in 1..(Len(hist) - 1) :
         ~Wrapped(k + 1) => hist[k + 1].backend = (hist[k].backend % N) + 1
    /\ \A k \in 1..(Len(hist) - N + 1) :
         (\A j \in (k + 1)..(k + N - 1) : ~Wrapped(j)) => EachOnce(k)

\* C3 witness: three backends, all alive, and at least N calls made without a wrap.
C3_Witness ==
  /\ N = 3
  /\ AllAlive
  /\ Len(hist) >= N
  /\ \A j \in 1..Len(hist) : ~Wrapped(j)

\* C4: when exactly one backend is alive and flags do not change, every call,
\* from every cursor value, returns that backend.
C4_SkipOver ==
  Cardinality(AliveSet) = 1 =>
    /\ \A k \in 1..Len(hist) : hist[k].backend \in AliveSet
    /\ \A r \in Requests : req[r].pc = "ret" => req[r].backend \in AliveSet

\* C4 witness: N >= 2 backends, one alive, and N or more calls have returned, one of
\* them started past the alive backend.
C4_Witness ==
  /\ N >= 2
  /\ Cardinality(AliveSet) = 1
  /\ Len(hist) >= N
  /\ \E k \in 1..Len(hist) : U64Mod(hist[k].tick, N) + 1 > hist[k].backend

\* requests that have made their AddUint64
Started == {r \in Requests : req[r].pc # "new"}
\* requests inside NextBackend
InCall == {r \in Requests : req[r].pc \in {"loop", "read", "runlock"}}
\* c + k in uint64 arithmetic
RECURSIVE U64Plus(_, _)
U64Plus(c, k) == IF k = 0 THEN c ELSE U64Plus(AddUint64(c), k - 1)
RECURSIVE SumCalls(_)
SumCalls(R) ==
  IF R = {} THEN 0 ELSE LET r == CHOOSE x \in R : TRUE IN req[r].calls + SumCalls(R \ {r})

\* C5: under any interleaving of the callers, no two of them get the same value
\* from their increment, the cursor is its initial value (0) plus the number of
\* increments made (plus M once all M calls are made), as long as every flag has
\* been true every caller gets a backend of the pool, never nil, and each
\* increment is one step that hands the value it stores to exactly one caller.
C5_AtomicCursor ==
  /\ [](/\ \A r, q \in Started : r # q => req[r].tick # req[q].tick
        /\ current = U64Plus(U64Zero, Cardinality(Started))
        /\ ~everDead =>
             \A r \in Requests : req[r].pc \in {"ret", "done"} => req[r].backend \in Pool)
  /\ [][\A r \in Requests :
          CallBegins(r) =>
            /\ CursorSucc(current, current')
            /\ req'[r].tick = current'
            /\ \A q \in Requests \ {r} : req'[q] = req[q]]_vars

\* C5 witness: all M >= 2 callers are inside NextBackend at once, on a pool whose
\* flags have all been true throughout.
C5_Witness ==
  /\ MaxRequests >= 2
  /\ InCall = Requests
  /\ \A r \in Requests : req[r].pc = "runlock"
  /\ ~everDead

\* C6: a request is forwarded only once NextBackend has returned; one that got nil
\* is answered 503 and forwarded to no backend, one that got a backend is forwarded
\* exactly once, to that backend.
C6_Dispatch ==
  \A r \in Requests :
    /\ req[r].pc # "done" => req[r].fwd = <<>> /\ req[r].resp = "none"
    /\ (req[r].pc = "done" /\ req[r].backend = Nil) => req[r].resp = "503" /\ req[r].fwd = <<>>
    /\ (req[r].pc = "done" /\ req[r].backend # Nil) =>
         /\ Len(req[r].fwd) = 1
         /\ req[r].fwd[1].to = req[r].backend

\* C6 witness: with every backend dead a request has been answered 503 without
\* being forwarded.
C6_Witness ==
  /\ AllDead
  /\ \E r \in Requests :
       req[r].pc = "done" /\ req[r].backend = Nil /\ req[r].resp = "503" /\ req[r].fwd = <<>>

\* C7: every request makes exactly one NextBackend call, so the cursor is the
\* number of requests begun; a request whose forward failed is answered 503 and
\* has been forwarded to the selected backend alone; once NextBackend has returned
\* the request goes on to its answer only, and an answered request does nothing
\* more (no second selection, no second forward).
C7_NoRetry ==
  /\ [](/\ \A r \in Requests :
             /\ req[r].calls = (IF req[r].pc = "new" THEN 0 ELSE 1)
             /\ req[r].pc = "done" =>
                  /\ Len(req[r].fwd) <= 1
                  /\ \A k \in 1..Len(req[r].fwd) :
                       /\ req[r].fwd[k].to = req[r].backend
                       /\ req[r].resp = (IF req[r].fwd[k].ok THEN "proxied" ELSE "503")
        /\ current = U64Plus(U64Zero, SumCalls(Requests)))
  /\ [][\A r \in Requests :
          /\ req[r].pc = "ret" => req'[r].pc \in {"ret", "done"} /\ req'[r].calls = req[r].calls
          /\ req[r].pc = "done" => req'[r] = req[r]]_vars

\* C7 witness: a finished request whose forward failed, answered 503, while another
\* backend is alive.
C7_Witness ==
  \E r \in Requests :
    /\ req[r].pc = "done"
    /\ req[r].fwd = <<[to |-> req[r].backend, ok |-> FALSE]>>
    /\ req[r].resp = "503"
    /\ \E b \in AliveSet : b # req[r].backend

\* C8: a HealthCheck invocation probes the backends in pool order, each once, and
\* stores each result before the next probe; when it returns it has probed all N
\* and every flag equals the result of its own probe.
C8_HealthCheckCoversPool ==
  \A t \in Threads :
    LET log == hcLog[t] IN
    /\ \A k \in 1..Len(log) :
         /\ log[k][2] = (k + 1) \div 2
         /\ log[k][1] = (IF k % 2 = 1 THEN "probe" ELSE "set")
         /\ k % 2 = 0 => log[k][3] = log[k - 1][3]
    /\ hc[t].pc \in {"probe", "return"} =>
         \A k \in 1..Len(log) : k % 2 = 0 => backends[log[k][2]].Alive = log[k][3]
    /\ hc[t].pc = "probe" => Len(log) = 2 * (hc[t].i - 1)
    /\ hc[t].pc = "return" => Len(log) = 2 * N

\* C8 witness: an invocation returns whose first probe failed and whose last
\* probe succeeded.
C8_Witness ==
  \E t \in Threads :
    /\ hc[t].pc = "return"
    /\ N >= 2
    /\ hcLog[t][1] = <<"probe", 1, FALSE>>
    /\ hcLog[t][2 * N] = <<"set", N, TRUE>>

\* the position whose flag request r is reading
ReadIdx(r) == ScanIdx(req[r].next, req[r].i, N)

\* C9: backends are constructed alive; the periodic loop exists and requests are
\* handled only after the initial HealthCheck has returned, so every flag a
\* NextBackend call reads has been written by a probe.
C9_StartupOrder ==
  /\ mainpc = "configure" => AllAlive /\ written = {}
  /\ mainpc \in {"configure", "healthcheck"} =>
       hc["periodic"].pc = "off" /\ Started = {}
  /\ hc["periodic"].pc # "off" => hc["main"].pc = "off" /\ written = 1..NumServers
  /\ \A r \in Started : written = 1..NumServers
  /\ \A r \in Requests : req[r].pc \in {"read", "runlock"} => ReadIdx(r) \in written

\* C9 witness: a request is reading a flag that the initial check has set to false.
C9_Witness ==
  \E r \in Requests :
    /\ req[r].pc = "read"
    /\ hc["periodic"].pc = "wait"
    /\ ~backends[ReadIdx(r)].Alive

\* C10: when a HealthCheck that probed B unreachable returns, B's flag is false; and
\* a NextBackend call never returns a backend whose flag has been false, with no
\* successful probe of it, ever since the call began.
C10_DeadExcluded ==
  /\ \A t \in Threads :
       hc[t].pc = "return" =>
         \A b \in Pool : hcLog[t][2 * b - 1] = <<"probe", b, FALSE>> => ~backends[b].Alive
  /\ \A r \in Requests : req[r].pc = "ret" => req[r].backend \notin req[r].deadSince

\* C10 witness: a call returns another backend after reading the flag of one that
\* a completed monitor cycle has marked dead.
C10_Witness ==
  \E r \in Requests :
    /\ req[r].pc = "ret"
    /\ req[r].backend # Nil
    /\ hc["periodic"].pc = "wait"
    /\ \E k \in 1..Len(req[r].seen) : req[r].seen[k][1] \in req[r].deadSince

\* backend b exists and is marked alive
MarkedAlive(b) == b \in Pool /\ backends[b].Alive

\* the periodic Health Monitor has just dialled backend b
ProbedByMonitor(b) == hc["periodic"].pc = "lock" /\ hc["periodic"].i = b

\* C11: unless the process has exited, the periodic Health Monitor probes every
\* backend again and again, and a backend whose dials succeed from some point on
\* is eventually marked alive and stays marked alive, hence eligible for
\* NextBackend.
C11_Reinstated ==
  \A b \in 1..NumServers :
    /\ []<>(ProbedByMonitor(b) \/ ~Running)
    /\ <>[](reach[b]) => <>[](MarkedAlive(b) \/ ~Running)

\* C11 witness: a flag has been false and the periodic monitor has since marked
\* every backend alive.
C11_Witness ==
  /\ everDead
  /\ AllAlive
  /\ N = NumServers
  /\ hc["periodic"].pc = "return"

\* request r is in, or has returned from, the call whose increment wrapped the cursor
WrappedCall(r) == req[r].pc \in {"loop", "read", "runlock", "ret"} /\ req[r].tick = U64Zero

\* C12: a NextBackend call made with the cursor at 2^64-1 wraps it to 0; its start
\* index and every index it scans are within the pool, none of its steps changes
\* a backend, and it returns an alive backend when there is one and nil otherwise.
C12_WrapHarmless ==
  /\ [](\A r \in Requests :
          WrappedCall(r) =>
            /\ req[r].next \in 0..(N - 1)
            /\ \A k \in 1..Len(req[r].seen) : req[r].seen[k][1] \in Pool
            /\ req[r].pc \in {"read", "runlock"} => ReadIdx(r) \in Pool
            /\ req[r].pc = "ret" =>
                 /\ SomeAlive => req[r].backend \in AliveSet
                 /\ AllDead => req[r].backend = Nil)
  /\ [][\A r \in Requests :
          /\ (current = U64Max /\ req[r].pc = "new" /\ req'[r].pc # "new") =>
               current' = U64Zero /\ WrappedCall(r)'
          /\ (WrappedCall(r) \/ WrappedCall(r)') => backends' = backends]_vars

\* C12 witness: the call that wrapped the cursor has skipped a dead backend and
\* returned an alive one of a pool of three.
C12_Witness ==
  /\ N = 3
  /\ current = U64Zero
  /\ WrappedCall(Caller)
  /\ req[Caller].pc = "ret"
  /\ Len(req[Caller].seen) > 1
  /\ req[Caller].backend \in AliveSet

\* C13: NextBackend increments first and scans from the new cursor value: the
\* recorded calls got consecutive cursor values, the cursor is the value the
\* latest call got, and with all backends alive a call that got value c+1 returns
\* the backend at index (c+1) mod N; on [A, B] from cursor 0 the first call
\* returns B with the cursor at 1 and the second returns A with the cursor at 2.
C13_IncrementThenSelect ==
  /\ \A k \in 1..(Len(hist) - 1) : hist[k + 1].tick = AddUint64(hist[k].tick)
  /\ req[Caller].pc = "new" /\ hist # <<>> => current = hist[Len(hist)].tick
  /\ req[Caller].pc # "new" =>
       /\ current = req[Caller].tick
       /\ hist # <<>> => req[Caller].tick = AddUint64(hist[Len(hist)].tick)
  /\ AllAlive =>
       /\ \A k \in 1..Len(hist) : hist[k].backend = U64Mod(hist[k].tick, N) + 1
       /\ req[Caller].pc = "ret" => req[Caller].backend = U64Mod(req[Caller].tick, N) + 1
  /\ (AllAlive /\ N = 2 /\ hist # <<>> /\ hist[1].tick = U64(0, 0, 0, 1)) =>
       /\ hist[1].backend = 2
       /\ Len(hist) >= 2 => hist[2].backend = 1 /\ hist[2].tick = U64(0, 0, 0, 2)

\* C13 witness: pool [A, B], both alive, cursor 0 at the start: two calls have
\* returned B then A and the cursor is 2.
C13_Witness ==
  /\ N = 2
  /\ AllAlive
  /\ Len(hist) = 2
  /\ hist[1] = [tick |-> U64(0, 0, 0, 1), backend |-> 2]
  /\ hist[2] = [tick |-> U64(0, 0, 0, 2), backend |-> 1]
  /\ current = U64(0, 0, 0, 2)

\* C14 as stated: a NextBackend call during which the flags were never all false
\* together returns a backend, also while HealthCheck writes flags during the scan.
C14_NonNilUnlessAllDeadAtOnce ==
  \A r \in Requests :
    (req[r].pc = "ret" /\ ~req[r].allDeadAt) => req[r].backend # Nil

\* C14 amended: a NextBackend call returns a backend if some one backend's flag was
\* true at every instant of the scan, also while HealthCheck writes flags during
\* the scan; it returns nil only if every flag it read was false when it read it.
C14_NonNilIfOneStaysAlive ==
  \A r \in Requests :
    req[r].pc = "ret" =>
      /\ req[r].alwaysAlive # {} => req[r].backend # Nil
      /\ req[r].backend = Nil =>
           /\ Len(req[r].seen) = N
           /\ \A k \in 1..N : ~req[r].seen[k][2]

\* C14 witness: a call returned a backend whose flag HealthCheck wrote during the
\* scan, while another backend's flag stayed true throughout.
C14_Witness ==
  \E r \in Requests :
    /\ req[r].pc = "ret"
    /\ req[r].backend # Nil
    /\ req[r].alwaysAlive # {}
    /\ req[r].backend \notin req[r].alwaysAlive
    /\ ~req[r].allDeadAt

\* C15: under any interleaving the k-th flag a NextBackend call reads is that of
\* index (start + k - 1) mod N, no index is read twice, each read records the flag
\* as it is at that moment, the returned backend is the last one read and was read
\* true, and every backend read before it was read false (a call that returns nil
\* read all N flags false); the returned backend's flag may be false by then.
C15_FirstAliveInScanOrder ==
  /\ [](\A r \in Requests :
          /\ \A k \in 1..Len(req[r].seen) :
               /\ req[r].seen[k][1] = ((req[r].next + (k - 1)) % N) + 1
               /\ \A j \in 1..(k - 1) : req[r].seen[j][1] # req[r].seen[k][1]
          /\ req[r].pc = "ret" =>
               LET m == Len(req[r].seen)
               IN /\ m \in 1..N
                  /\ \A k \in 1..(m - 1) : ~req[r].seen[k][2]
                  /\ req[r].backend # Nil => req[r].seen[m] = <<req[r].backend, TRUE>>
                  /\ req[r].backend = Nil => m = N /\ ~req[r].seen[m][2])
  /\ [][\A r \in Requests :
          (req[r].pc = "read" /\ req'[r].pc # "read") =>
             LET idx == ((req[r].next + Len(req[r].seen)) % N) + 1
             IN req'[r].seen = Append(req[r].seen, <<idx, backends[idx].Alive>>)]_vars

\* C15 witness: a call skipped a backend it read dead and returned the next one,
\* whose flag HealthCheck has set to false since the call read it.
C15_Witness ==
  \E r \in Requests :
    /\ req[r].pc = "ret"
    /\ req[r].backend # Nil
    /\ Len(req[r].seen) > 1
    /\ ~backends[req[r].backend].Alive

\* the SetAlive calls and the IsAlive calls inside the critical section of backend b
WritersIn(b) == {t \in Threads : hc[t].pc \in {"write", "unlock"} /\ hc[t].i = b}
ReadersIn(b) == {r \in Requests : req[r].pc \in {"read", "runlock"} /\ ReadIdx(r) = b}

\* C16: a backend's flag is read and written only inside its reader-writer lock:
\* the lock is write-held exactly while one SetAlive is inside, it counts the
\* IsAlive calls inside, a SetAlive inside excludes every IsAlive and every other
\* SetAlive of that backend, a flag changes only in a step of the SetAlive holding
\* the write lock, and an IsAlive returns the flag's value, which is the value
\* before or after any SetAlive around it, since none can write while it is inside.
C16_SynchronizedFlag ==
  /\ [](\A b \in Pool :
          LET W == WritersIn(b)
              R == ReadersIn(b)
          IN /\ Cardinality(W) <= 1
             /\ mux[b].w <=> W # {}
             /\ mux[b].r = Cardinality(R)
             /\ W # {} => R = {}
             /\ \A r \in R : req[r].pc = "runlock" => req[r].alive = backends[b].Alive)
  /\ [][/\ (backends' # backends /\ N' = N) =>
          \A b \in Pool :
            backends'[b].Alive # backends[b].Alive =>
              /\ mux[b].w /\ mux[b].r = 0
              /\ \E t \in WritersIn(b) :
                   /\ hc[t].pc = "write" /\ hc'[t].pc = "unlock"
                   /\ backends'[b].Alive = hc[t].status
     /\ req' # req =>
          \A r \in Requests :
            (req[r].pc = "read" /\ req'[r].pc = "runlock") =>
               LET b == ReadIdx(r)
               IN /\ ~mux[b].w /\ mux[b].r > 0
                  /\ req'[r].alive \in {backends[b].Alive, backends'[b].Alive}]_vars

\* C16 witness: HealthCheck is inside SetAlive of a backend, about to flip its flag,
\* while a request's IsAlive on the same backend waits for the lock.
C16_Witness ==
  \E b \in Pool, t \in Threads, r \in Requests :
    /\ hc[t].pc = "write" /\ hc[t].i = b
    /\ hc[t].status # backends[b].Alive
    /\ req[r].pc = "loop" /\ ReadIdx(r) = b
    /\ mux[b].w

\* C17: the step that begins a NextBackend call advances the cursor by exactly 1
\* and no other step changes the cursor, so a call advances it by 1 also when it
\* returns nil; no step of a call changes a backend's flag or address or the
\* pool's size or order; no step of HealthCheck changes the cursor or the pool's
\* size, order or addresses.
C17_SelectionFrame ==
  [][/\ (\E r \in Requests : CallBegins(r)) => CursorSucc(current, current')
     /\ (\A r \in Requests : ~CallBegins(r)) => current' = current
     /\ \A r \in Requests : (CallBegins(r) \/ CallStep(r)) => backends' = backends
     /\ (\E t \in Threads : hc'[t] # hc[t]) =>
          /\ current' = current
          /\ N' = N
          /\ \A b \in Pool : backends'[b].URL = backends[b].URL]_vars

\* C17 witness: a call has returned nil while a HealthCheck is under way; the
\* cursor holds the value that call's increment stored.
C17_Witness ==
  \E r \in Requests :
    /\ req[r].pc = "ret"
    /\ req[r].backend = Nil
    /\ current = req[r].tick
    /\ current # U64Zero
    /\ hc["periodic"].pc \in {"probe", "lock", "write", "unlock"}

\* C18: after startup a backend's flag changes only in the SetAlive step of a
\* HealthCheck that is at that backend; the step that ends a request (503 or
\* forwarding, failed or not) changes no flag, so a backend whose forwarding
\* failed is selected again as long as no HealthCheck has marked it dead.
C18_OnlyMonitorWrites ==
  [][/\ \A b \in Pool :
          (N' = N /\ backends'[b].Alive # backends[b].Alive) =>
             \E t \in Threads : /\ hc[t].pc = "write" /\ hc[t].i = b
                                /\ hc'[t].pc = "unlock"
     /\ \A r \in Requests :
          (req[r].pc = "ret" /\ req'[r].pc = "done") => backends' = backends
     /\ (\A t \in Threads : hc'[t] = hc[t]) => backends' = backends \/ mainpc = "configure"]_vars

\* C18 witness: forwarding to a backend has failed for one request, and another
\* request's scan has just read that backend's flag true and is about to return it.
C18_Witness ==
  \E r, q \in Requests, b \in Pool :
    /\ req[r].pc = "done"
    /\ req[r].fwd = <<[to |-> b, ok |-> FALSE]>>
    /\ req[r].resp = "503"
    /\ req[q].pc = "runlock" /\ ReadIdx(q) = b /\ req[q].alive

\* the execution paths with a HealthCheck invocation in progress, and those inside
\* SetAlive of backend b (from the call of Lock to the return of Unlock)
Checking == {t \in Threads : hc[t].pc \in {"probe", "lock", "write", "unlock", "return"}}
SettingAlive(b) == {t \in Threads : hc[t].pc \in {"lock", "write", "unlock"} /\ hc[t].i = b}

\* C19: at every moment at most one HealthCheck invocation is in progress: the
\* initial check runs only before the periodic goroutine exists and the periodic
\* loop only after it, so no flag has two SetAlive calls under way at once, and the
\* probes logged belong to the one invocation in progress.
C19_SingleHealthCheck ==
  /\ Cardinality(Checking) <= 1
  /\ "main" \in Checking <=> mainpc = "healthcheck"
  /\ "periodic" \in Checking => mainpc \in {"listen", "serving", "fatal"}
  /\ \A b \in Pool : Cardinality(SettingAlive(b)) <= 1
  /\ \A t \in Threads : t \notin Checking => hcLog[t] = <<>>

\* C19 witness: the periodic loop's check is writing a flag while requests are
\* served, after the initial check has written every flag and returned.
C19_Witness ==
  /\ mainpc = "serving"
  /\ hc["periodic"].pc = "write"
  /\ hc["periodic"].i = N
  /\ hc["main"] = HCOff
  /\ written = Pool
  /\ hcLog["periodic"] # <<>>

\* the locks an execution path holds: a HealthCheck holds the write lock of its
\* backend inside SetAlive, a request the read lock of the scanned backend inside
\* IsAlive, and neither holds anything anywhere else
HeldByCheck(t) == IF hc[t].pc \in {"write", "unlock"} THEN {hc[t].i} ELSE {}
HeldByCall(r) == IF req[r].pc \in {"read", "runlock"} THEN {ReadIdx(r)} ELSE {}

\* C20: every path holds at most one backend lock, and only inside SetAlive or
\* IsAlive (every held lock has its holder there); a NextBackend call makes at most
\* N flag reads and a HealthCheck N probes; a path with work in progress can always
\* take a step unless it waits for a lock whose holder can; and under fair
\* scheduling every started NextBackend call returns and every started HealthCheck
\* returns (or the process has exited), whatever the other side does.
C20_NoDeadlockBounded ==
  /\ [](/\ \A t \in Threads : Cardinality(HeldByCheck(t)) <= 1
        /\ \A r \in Requests : Cardinality(HeldByCall(r)) <= 1
        /\ \A b \in Pool :
             /\ mux[b].w => \E t \in Threads : b \in HeldByCheck(t)
             /\ mux[b].r = Cardinality({r \in Requests : b \in HeldByCall(r)})
        /\ \A r \in Requests :
             /\ Len(req[r].seen) <= N
             /\ req[r].pc \in {"loop", "read", "runlock"} => req[r].i < N
        /\ \A t \in Threads :
             /\ Len(hcLog[t]) <= 2 * N
             /\ hc[t].pc = "return" => Len(hcLog[t]) = 2 * N
        /\ (Running /\ (Checking # {} \/ req[Caller].pc \in {"loop", "read", "runlock"})) =>
             ENABLED (\/ \E t \in Threads : HCProbe(t) \/ HCLock(t) \/ HCWrite(t)
                                            \/ HCUnlock(t) \/ HCReturn(t)
                      \/ ReqRLock(Caller) \/ ReqRead(Caller) \/ ReqRUnlock(Caller)))
  /\ (req[Caller].pc \in {"loop", "read", "runlock"}) ~> (req[Caller].pc = "ret" \/ ~Running)
  /\ \A t \in Threads :
       (t \in Checking) ~> (hc[t].pc \in {"off", "wait"} \/ ~Running)

\* C20 witness: HealthCheck waits in Lock for a backend whose read lock the request
\* holds for the last read of its scan.
C20_Witness ==
  /\ req[Caller].pc = "runlock"
  /\ Len(req[Caller].seen) = N
  /\ N = NumServers
  /\ hc["periodic"].pc = "lock"
  /\ hc["periodic"].i = ReadIdx(Caller)
  /\ mux[ReadIdx(Caller)].r = 1

====
